---- MODULE Spec2Model ----
(***************************************************************************)
(* A model of the cliux layout engine (src/src/layout.rs) and of the       *)
(* components that render through it.                                      *)
(*                                                                         *)
(* A text is a sequence of characters; a character is a token: every       *)
(* one-character string is that ASCII character, "\n" is the line feed,    *)
(* and "Uxxxx" is the Unicode scalar value xxxx.                           *)
(***************************************************************************)
EXTENDS Integers, Sequences, FiniteSets, TLC

VARIABLES
    pc,         \* position of the driver: which call has returned
    text,       \* the &str argument of pad / wrap_text
    width,      \* the usize argument of pad / wrap_text
    padded,     \* pad(text, width)
    repadded,   \* pad(padded, width)
    lines,      \* wrap_text(text, width)
    relines,    \* wrap_text(lines joined by single spaces, width)
    comp,       \* the component under construction: "Boxed", "Note" or "none"
    cfg,        \* its fields
    out,        \* the lines written to standard output, in order
    painted,    \* the ansi_term Style the content was painted with
    panicked,   \* the thread panicked during print
    overflow_checks, \* the build traps integer overflow (debug profile)
    stdin,      \* what each read_line on standard input will return, in order
    reads,      \* the number of read_line calls made
    ret,        \* the value prompt returned: None until it returns
    last_call   \* the builder call made last: "new" after construction,
                \* "set" after a plain setter, the call with its keyword
                \* after a mode or preset call

layoutVars == <<text, width, padded, repadded, lines, relines>>
ioVars == <<stdin, reads, ret, last_call>>
compVars == <<comp, cfg, out, painted, panicked, overflow_checks, ioVars>>
vars == <<pc, layoutVars, compVars>>

(***************************************************************************)
(* Bounds of the model.                                                    *)
(***************************************************************************)
MaxPadLen == 4
MaxPadWidth == 6
MaxTextLen == 6
MaxWrapWidth == 5
MaxBoxWidth == 5

SeqsUpTo(S, n) == UNION {[1..k -> S] : k \in 0..n}

(***************************************************************************)
(* Characters.                                                             *)
(***************************************************************************)
\* U+00E9 e-acute, U+0301 combining acute accent, U+4E2D CJK ideograph,
\* U+2600 black sun, U+1F44B waving hand, U+25xx box drawing, and the
\* icons of Note::kind: U+2139 U+FE0F, U+26A0 U+FE0F, U+1F4A1, and the
\* default bullet of List: U+2022.
CodePoint(c) ==
    CASE c = "U00E9" -> 233
      [] c = "U0301" -> 769
      [] c = "U2022" -> 8226
      [] c = "U2139" -> 8505
      [] c = "U2500" -> 9472
      [] c = "U2502" -> 9474
      [] c = "U250C" -> 9484
      [] c = "U2510" -> 9488
      [] c = "U2514" -> 9492
      [] c = "U2518" -> 9496
      [] c = "U251C" -> 9500
      [] c = "U2524" -> 9508
      [] c = "U256D" -> 9581
      [] c = "U256E" -> 9582
      [] c = "U256F" -> 9583
      [] c = "U2570" -> 9584
      [] c = "U2600" -> 9728
      [] c = "U26A0" -> 9888
      [] c = "U4E2D" -> 20013
      [] c = "UFE0F" -> 65039
      [] c = "U1F44B" -> 128075
      [] c = "U1F4A1" -> 128161
      [] c = "\n" -> 10
      [] c = " " -> 32
      [] OTHER -> 127   \* any other token is a printable ASCII character

\* char::len_utf8: the number of bytes str::len counts for the character.
Utf8Len(c) ==
    IF CodePoint(c) < 128 THEN 1
    ELSE IF CodePoint(c) < 2048 THEN 2
    ELSE IF CodePoint(c) < 65536 THEN 3
    ELSE 4

\* char::is_whitespace, as used by split_whitespace and trim_end.
IsWhitespace(c) == c \in {" ", "\n"}

\* Grapheme_Cluster_Break = Extend / Control of the characters modelled.
IsExtend(c) == c \in {"U0301", "UFE0F"}
IsControl(c) == c = "\n"

\* unicode_width: columns of one character (control and combining: 0,
\* East Asian Wide and emoji presentation: 2, otherwise 1).
CharWidth(c) ==
    CASE c \in {"U0301", "UFE0F", "\n"} -> 0
      [] c \in {"U4E2D", "U1F44B", "U1F4A1"} -> 2
      [] OTHER -> 1

RECURSIVE ByteLen(_)
\* str::len
ByteLen(s) == IF s = <<>> THEN 0 ELSE Utf8Len(Head(s)) + ByteLen(Tail(s))

RECURSIVE StrWidth(_)
\* UnicodeWidthStr::width
StrWidth(s) == IF s = <<>> THEN 0 ELSE CharWidth(Head(s)) + StrWidth(Tail(s))

RECURSIVE ExtendRun(_, _)
ExtendRun(s, i) ==
    IF i <= Len(s) /\ IsExtend(s[i]) THEN 1 + ExtendRun(s, i + 1) ELSE 0

RECURSIVE graphemes(_)
\* UnicodeSegmentation::graphemes(text, true): a cluster is a character and
\* the Extend characters that follow it; a control character stands alone.
graphemes(s) ==
    IF s = <<>> THEN <<>>
    ELSE LET n == IF IsControl(s[1]) THEN 1 ELSE 1 + ExtendRun(s, 2)
         IN  <<SubSeq(s, 1, n)>> \o graphemes(SubSeq(s, n + 1, Len(s)))

(***************************************************************************)
(* layout::pad                                                             *)
(***************************************************************************)
\* only a cluster of one character can be an emoji
is_emoji_SingleOnly(g) ==
    /\ Len(g) = 1
    /\ \/ CodePoint(g[1]) >= 127744 /\ CodePoint(g[1]) <= 129791
       \/ CodePoint(g[1]) >= 9728 /\ CodePoint(g[1]) <= 9983

is_emoji(g) ==
    \E i \in 1..Len(g) :
        \/ CodePoint(g[i]) >= 127744 /\ CodePoint(g[i]) <= 129791
        \/ CodePoint(g[i]) >= 9728 /\ CodePoint(g[i]) <= 9983

\* the body of pad's loop: the columns one cluster adds to display_width
adjusted(g) == IF is_emoji(g) /\ StrWidth(g) = 1 THEN 2 ELSE StrWidth(g)

RECURSIVE SumAdjusted(_)
SumAdjusted(gs) ==
    IF gs = <<>> THEN 0 ELSE adjusted(Head(gs)) + SumAdjusted(Tail(gs))

\* display_width at the end of pad's loop
display_width(s) == SumAdjusted(graphemes(s))

\* A usize is held as the integer congruent to it modulo 2^64 in
\* -2^63 .. 2^63 - 1: a negative integer stands for a value above isize::MAX.
ULt(a, b) ==
    \/ a >= 0 /\ b >= 0 /\ a < b
    \/ a >= 0 /\ b < 0
    \/ a < 0 /\ b < 0 /\ a < b

\* usize::saturating_sub
saturating_sub(a, b) == IF ULt(a, b) THEN 0 ELSE a - b

\* " ".repeat(n)
Spaces(n) == [i \in 1..n |-> " "]

\* str::repeat panics ("capacity overflow") above isize::MAX bytes
repeat_panics(n) == n < 0

padding(s, w) == saturating_sub(w, display_width(s))

pad_OffByOne(s, w) == s \o Spaces(padding(s, w) + 1)

pad_ByteLen(s, w) == s \o Spaces(saturating_sub(w, ByteLen(s)))

pad(s, w) == s \o Spaces(padding(s, w))

(***************************************************************************)
(* layout::wrap_text                                                       *)
(***************************************************************************)
RECURSIVE SplitOn(_, _, _)
\* str::split on one character, the pieces in order (cur: the piece so far)
SplitOn(s, sep, cur) ==
    IF s = <<>> THEN <<cur>>
    ELSE IF Head(s) = sep THEN <<cur>> \o SplitOn(Tail(s), sep, <<>>)
    ELSE SplitOn(Tail(s), sep, Append(cur, Head(s)))

\* str::lines: the pieces between line feeds, without a final empty piece
str_lines(s) ==
    LET ps == SplitOn(s, "\n", <<>>)
    IN  IF ps[Len(ps)] = <<>> THEN SubSeq(ps, 1, Len(ps) - 1) ELSE ps

RECURSIVE split_whitespace(_, _)
\* str::split_whitespace: the maximal runs of non-whitespace characters
split_whitespace(s, cur) ==
    IF s = <<>> THEN (IF cur = <<>> THEN <<>> ELSE <<cur>>)
    ELSE IF IsWhitespace(Head(s))
         THEN (IF cur = <<>> THEN <<>> ELSE <<cur>>)
                  \o split_whitespace(Tail(s), <<>>)
         ELSE split_whitespace(Tail(s), Append(cur, Head(s)))

\* the line is pushed as it is
trim_end_Identity(s) == s

RECURSIVE trim_end(_)
\* str::trim_end
trim_end(s) ==
    IF s # <<>> /\ IsWhitespace(s[Len(s)])
    THEN trim_end(SubSeq(s, 1, Len(s) - 1))
    ELSE s

needs_flush_IgnoresWord(current, word, w) == ByteLen(current) + 1 > w

needs_flush_Chars(current, word, w) == Len(current) + Len(word) + 1 > w

\* the test before a word is pushed; current ends with its separator
needs_flush(current, word, w) == ByteLen(current) + ByteLen(word) + 1 > w

next_current_DropsWord(current, word, flush) ==
    IF flush THEN <<>> ELSE current \o word \o <<" ">>

\* current.clear() on a flush, then push_str(word) and push(' ')
next_current(current, word, flush) ==
    (IF flush THEN <<>> ELSE current) \o word \o <<" ">>

RECURSIVE wrap_words(_, _, _, _)
\* the loop over the words of one paragraph and the flush that follows it
wrap_words(words, current, acc, w) ==
    IF words = <<>>
    THEN IF current # <<>> THEN Append(acc, trim_end(current)) ELSE acc
    ELSE LET word == Head(words)
             flush == needs_flush(current, word, w)
             acc1 == IF flush THEN Append(acc, trim_end(current)) ELSE acc
         IN  wrap_words(Tail(words), next_current(current, word, flush), acc1, w)

RECURSIVE wrap_paragraphs(_, _, _)
\* the loop over text.lines(); each paragraph starts with an empty current
wrap_paragraphs(ps, acc, w) ==
    IF ps = <<>> THEN acc
    ELSE wrap_paragraphs(Tail(ps),
                         wrap_words(split_whitespace(Head(ps), <<>>), <<>>, acc, w),
                         w)

wrap_text_Merged(s, w) == wrap_words(split_whitespace(s, <<>>), <<>>, <<>>, w)

wrap_text(s, w) == wrap_paragraphs(str_lines(s), <<>>, w)

RECURSIVE JoinLines(_)
\* lines.join(" ")
JoinLines(ls) ==
    IF ls = <<>> THEN <<>>
    ELSE IF Len(ls) = 1 THEN ls[1]
    ELSE ls[1] \o <<" ">> \o JoinLines(Tail(ls))

(***************************************************************************)
(* The documented examples of wrap_text (layout.rs, doc tests).            *)
(***************************************************************************)
DocWidth == 20
DocSentence ==
    <<"T", "h", "i", "s", " ", "i", "s", " ", "a", " ", "v", "e", "r", "y",
      " ", "l", "o", "n", "g", " ", "s", "e", "n", "t", "e", "n", "c", "e",
      " ", "t", "h", "a", "t", " ", "n", "e", "e", "d", "s", " ", "t", "o",
      " ", "b", "e", " ", "w", "r", "a", "p", "p", "e", "d", ".">>
DocExpected ==
    << <<"T", "h", "i", "s", " ", "i", "s", " ", "a", " ", "v", "e", "r", "y">>,
       <<"l", "o", "n", "g", " ", "s", "e", "n", "t", "e", "n", "c", "e", " ", "t", "h", "a", "t">>,
       <<"n", "e", "e", "d", "s", " ", "t", "o", " ", "b", "e", " ", "w", "r", "a", "p", "p", "e", "d", ".">> >>
DocParagraphWidth == 25
DocParagraphs ==
    <<"F", "i", "r", "s", "t", " ", "p", "a", "r", "a", "g", "r", "a", "p",
      "h", ".", "\n", "S", "e", "c", "o", "n", "d", " ", "p", "a", "r", "a",
      "g", "r", "a", "p", "h", " ", "i", "s", " ", "a", " ", "b", "i", "t",
      " ", "l", "o", "n", "g", "e", "r", " ", "a", "n", "d", " ", "n", "e",
      "e", "d", "s", " ", "w", "r", "a", "p", "p", "i", "n", "g", ".">>
DocParagraphsExpected ==
    << <<"F", "i", "r", "s", "t", " ", "p", "a", "r", "a", "g", "r", "a", "p", "h", ".">>,
       <<"S", "e", "c", "o", "n", "d", " ", "p", "a", "r", "a", "g", "r", "a", "p", "h", " ", "i", "s", " ", "a">>,
       <<"b", "i", "t", " ", "l", "o", "n", "g", "e", "r", " ", "a", "n", "d", " ", "n", "e", "e", "d", "s">>,
       <<"w", "r", "a", "p", "p", "i", "n", "g", ".">> >>


(***************************************************************************)
(* Inputs.                                                                 *)
(***************************************************************************)
PadChars == {"a", " ", "U00E9", "U0301", "U4E2D", "U2600", "U1F44B"}
PadTexts == SeqsUpTo(PadChars, MaxPadLen)

WrapChars == {"a", "U00E9", " ", "\n"}
WrapTexts == SeqsUpTo(WrapChars, MaxTextLen)

Max(a, b) == IF a >= b THEN a ELSE b

\* Style::new(): no foreground colour, not bold
PlainStyle == [fg |-> "none", bold |-> FALSE]

\* nothing is read from standard input
NoInput ==
    /\ stdin = <<>>
    /\ reads = 0
    /\ ret = <<>>
    /\ last_call = "new"

\* no component is involved in a run that only calls the layout functions
NoComponent ==
    /\ comp = "none"
    /\ cfg = <<>>
    /\ out = <<>>
    /\ painted = PlainStyle
    /\ panicked = FALSE
    /\ overflow_checks = FALSE
    /\ NoInput

(***************************************************************************)
(* pad: a caller pads a text, then pads the result again.                  *)
(***************************************************************************)
InitPad ==
    /\ pc = "start"
    /\ text \in PadTexts
    /\ width \in 0..MaxPadWidth
    /\ padded = <<>>
    /\ repadded = <<>>
    /\ lines = <<>>
    /\ relines = <<>>
    /\ NoComponent

PadCall ==
    /\ pc = "start"
    /\ padded' = pad(text, width)
    /\ pc' = "padded"
    /\ UNCHANGED <<text, width, repadded, lines, relines, compVars>>

PadAgain ==
    /\ pc = "padded"
    /\ repadded' = pad(padded, width)
    /\ pc' = "repadded"
    /\ UNCHANGED <<text, width, padded, lines, relines, compVars>>

NextPad == PadCall \/ PadAgain

SpecPad == InitPad /\ [][NextPad]_vars

(***************************************************************************)
(* wrap_text: a caller wraps a text, then joins the lines with single      *)
(* spaces and wraps the joined text at the same width.                     *)
(***************************************************************************)
InitWrap ==
    /\ pc = "start"
    /\ \E inp \in (WrapTexts \X (0..MaxWrapWidth))
                      \cup {<<DocSentence, DocWidth>>,
                            <<DocParagraphs, DocParagraphWidth>>} :
           /\ text = inp[1]
           /\ width = inp[2]
    /\ padded = <<>>
    /\ repadded = <<>>
    /\ lines = <<>>
    /\ relines = <<>>
    /\ NoComponent

WrapCall ==
    /\ pc = "start"
    /\ lines' = wrap_text(text, width)
    /\ pc' = "wrapped"
    /\ UNCHANGED <<text, width, padded, repadded, relines, compVars>>

Rewrap ==
    /\ pc = "wrapped"
    /\ relines' = wrap_text(JoinLines(lines), width)
    /\ pc' = "rewrapped"
    /\ UNCHANGED <<text, width, padded, repadded, lines, compVars>>

NextWrap == WrapCall \/ Rewrap

SpecWrap == InitWrap /\ [][NextWrap]_vars

(***************************************************************************)
(* Claims about pad.                                                       *)
(***************************************************************************)
IsPrefix(s, t) == Len(s) <= Len(t) /\ SubSeq(t, 1, Len(s)) = s

\* C1: pad(text, w) is text followed by exactly max(0, w - width(text))
\* spaces and nothing else; text is a prefix of the result also when it is
\* wider than w, and the display width of the result is max(w, width(text)).
C1_PadAppendsSpaces ==
    pc # "start" =>
        LET n == Max(0, width - display_width(text))
        IN  /\ Len(padded) = Len(text) + n
            /\ IsPrefix(text, padded)
            /\ \A i \in (Len(text) + 1)..Len(padded) : padded[i] = " "
            /\ display_width(padded) = Max(width, display_width(text))

\* pad has returned for a text with a double-width cluster that needed
\* padding, and for one wider than the target
C1_Witness ==
    /\ pc = "padded"
    /\ text = <<"U2600", "U00E9">>
    /\ width = 5
    /\ padded = <<"U2600", "U00E9", " ", " ">>

\* C8: pad is idempotent at a fixed width: when width(text) <= w, padding
\* the padded text again to w gives the padded text.
C8_PadIdempotent ==
    (pc = "repadded" /\ display_width(text) <= width) => repadded = padded

\* the second pad has returned for a text that the first pad extended
C8_Witness ==
    /\ pc = "repadded"
    /\ display_width(text) < width
    /\ text # <<>>
    /\ Len(padded) > Len(text)
    /\ repadded = padded

(***************************************************************************)
(* Claims about wrap_text.                                                 *)
(***************************************************************************)
\* the whitespace-separated words of a text, in order
Words(s) == split_whitespace(s, <<>>)

\* a line that is one word and nothing else
IsSingleWord(line) == Words(line) = <<line>>

RECURSIVE Flatten(_)
Flatten(ss) == IF ss = <<>> THEN <<>> ELSE Head(ss) \o Flatten(Tail(ss))

\* the number of elements of a sequence equal to x
Count(x, ss) == Cardinality({i \in 1..Len(ss) : ss[i] = x})

\* C2: for w >= 1 and a non-empty text every returned line has length at
\* most w, except a line that is a single word longer than w, alone on it.
C2_LinesFit ==
    (pc # "start" /\ width >= 1 /\ text # <<>>) =>
        \A i \in 1..Len(lines) :
            \/ ByteLen(lines[i]) <= width
            \/ IsSingleWord(lines[i]) /\ ByteLen(lines[i]) > width

\* a wrap that returned an overflowing word and a line that fits
C2_Witness ==
    /\ pc = "wrapped"
    /\ width >= 1
    /\ \E i \in 1..Len(lines) : ByteLen(lines[i]) > width
    /\ \E j \in 1..Len(lines) : lines[j] # <<>> /\ ByteLen(lines[j]) <= width

\* C3: wrap_text of the documented sentence at width 20 returns exactly
\* the three documented lines, in order.
C3_DocExample ==
    (pc # "start" /\ text = DocSentence /\ width = DocWidth) =>
        lines = DocExpected

\* the lines of one paragraph break exactly where the next word does not
\* fit: line + separator + next word is longer than w at every break, and
\* every line of several words is at most w long
BreaksExactlyWhenNeeded(ls, w) ==
    /\ \A i \in 1..(Len(ls) - 1) :
           ByteLen(ls[i]) + 1 + ByteLen(Words(ls[i + 1])[1]) > w
    /\ \A i \in 1..Len(ls) :
           Len(Words(ls[i])) >= 2 => ByteLen(ls[i]) <= w

\* C4: within a paragraph a new line starts before a word exactly when
\* current line + one space + the word is longer than max_width; a word
\* that brings the line to exactly max_width stays on the line.
C4_BreakOnlyWhenTooLong ==
    pc # "start" =>
        LET ps == str_lines(text)
            per == [k \in 1..Len(ps) |-> wrap_text(ps[k], width)]
        IN  /\ lines = Flatten(per)
            /\ \A k \in 1..Len(ps) : BreaksExactlyWhenNeeded(per[k], width)

\* C5 as stated: joining the lines of wrap_text(text, w) with single
\* spaces and wrapping again at w gives the same lines, for every text.
C5_RoundTripAnyText == pc = "rewrapped" => relines = lines

\* the text has at most one paragraph that holds a word
SingleParagraph(s) ==
    Cardinality({k \in 1..Len(str_lines(s)) : Words(str_lines(s)[k]) # <<>>}) <= 1

\* C5 amended: the round trip gives the same lines for every text whose
\* words all lie in one paragraph.
C5_RoundTripOneParagraph ==
    (pc = "rewrapped" /\ SingleParagraph(text)) => relines = lines

\* a one-paragraph text wrapped into several lines and wrapped again
C5_Witness ==
    /\ pc = "rewrapped"
    /\ SingleParagraph(text)
    /\ Len(lines) >= 2
    /\ \E j \in 1..Len(lines) : Len(Words(lines[j])) >= 2
    /\ relines = lines

\* C6: explicit line breaks are paragraph boundaries: wrap_text(a \n b, w)
\* is wrap_text(a, w) followed by wrap_text(b, w), and a paragraph without
\* words contributes no line.
C6_ParagraphsIndependent ==
    pc # "start" =>
        /\ \A i \in 1..Len(text) :
               text[i] = "\n" =>
                   lines = wrap_text(SubSeq(text, 1, i - 1), width)
                               \o wrap_text(SubSeq(text, i + 1, Len(text)), width)
        /\ \A k \in 1..Len(str_lines(text)) :
               Words(str_lines(text)[k]) = <<>> =>
                   wrap_text(str_lines(text)[k], width) = <<>>
        /\ (text = DocParagraphs /\ width = DocParagraphWidth) =>
               lines = DocParagraphsExpected

\* a wrap of two paragraphs with words around an empty paragraph, short
\* enough to share a line were they one paragraph
C6_Witness ==
    /\ pc = "wrapped"
    /\ text = <<"a", "\n", "\n", "a">>
    /\ width = 5
    /\ lines = << <<"a">>, <<"a">> >>

\* C7: a word longer than max_width is never split and is the entire
\* content of exactly one output line, wherever it stands.
C7_LongWordAlone ==
    pc # "start" =>
        /\ \A i \in 1..Len(lines) :
               (\E j \in 1..Len(Words(lines[i])) :
                    ByteLen(Words(lines[i])[j]) > width)
                   => IsSingleWord(lines[i])
        /\ \A j \in 1..Len(Words(text)) :
               ByteLen(Words(text)[j]) > width =>
                   Count(Words(text)[j], lines) = Count(Words(text)[j], Words(text))

\* a long word in the middle of a paragraph, after a word that fits
C7_Witness ==
    /\ pc = "wrapped"
    /\ text = <<"a", " ", "a", "U00E9", " ", "a">>
    /\ width = 2
    /\ lines = << <<"a">>, <<"a", "U00E9">>, <<"a">> >>

(***************************************************************************)
(* Framed components: Boxed (components/boxed.rs), Note (components/       *)
(* note.rs).  An Option is the empty sequence (None) or <<x>> (Some(x)).   *)
(***************************************************************************)
None == <<>>
Some(x) == <<x>>

BoxedDefaultWidth == 50
NoteDefaultWidth == 50

\* format!("{:c<n$}", ""): the fill character c, n times
Fill(c, n) == [i \in 1..n |-> c]

\* a - b on usize: a panic when the build traps overflow, else the
\* difference modulo 2^64
usize_sub(a, b, checks) == [panic |-> checks /\ ULt(a, b), val |-> a - b]

\* Boxed::new
Boxed_new(title) ==
    [title |-> title, content |-> <<>>, width |-> BoxedDefaultWidth]

\* "│ {} │" around pad(line, interior)
boxed_line(s, interior) ==
    <<"U2502", " ">> \o pad(s, interior) \o <<" ", "U2502">>

\* self.width - 2
boxed_interior(b, checks) == usize_sub(b.width, 2, checks)

\* Boxed::print: the lines written and whether the thread panicked; a
\* panic ends the output before the line that was being formatted
Boxed_print(b, checks) ==
    LET inner == boxed_interior(b, checks)
        bad(s) == inner.panic \/ repeat_panics(padding(s, inner.val))
        top == <<"U256D">> \o Fill("U2500", b.width) \o <<"U256E">>
        divider == <<"U251C">> \o Fill("U2500", b.width) \o <<"U2524">>
        bottom == <<"U2570">> \o Fill("U2500", b.width) \o <<"U256F">>
        body == str_lines(b.content)
        badAt == {i \in 1..Len(body) : bad(body[i])}
        first == IF badAt = {} THEN Len(body) + 1
                 ELSE CHOOSE i \in badAt : \A j \in badAt : i <= j
        framed == [i \in 1..(first - 1) |-> boxed_line(body[i], inner.val)]
    IN  IF bad(b.title) THEN [out |-> <<top>>, panicked |-> TRUE]
        ELSE IF badAt # {}
        THEN [out |-> <<top, boxed_line(b.title, inner.val), divider>> \o framed,
              panicked |-> TRUE]
        ELSE [out |-> <<top, boxed_line(b.title, inner.val), divider>>
                          \o framed \o <<bottom>>,
              panicked |-> FALSE]

\* Note::new
Note_new(t) ==
    [text |-> t, icon |-> None, color |-> None, bold |-> FALSE,
     style |-> "rounded", width |-> NoteDefaultWidth]

\* the names of colours and kinds, as texts
Str_red == <<"r", "e", "d">>
Str_green == <<"g", "r", "e", "e", "n">>
Str_yellow == <<"y", "e", "l", "l", "o", "w">>
Str_blue == <<"b", "l", "u", "e">>
Str_purple == <<"p", "u", "r", "p", "l", "e">>
Str_magenta == <<"m", "a", "g", "e", "n", "t", "a">>
Str_cyan == <<"c", "y", "a", "n">>
Str_white == <<"w", "h", "i", "t", "e">>
Str_black == <<"b", "l", "a", "c", "k">>

\* Note::kind
Note_kind(n, kind) ==
    CASE kind = "info" ->
             [n EXCEPT !.icon = Some(<<"U2139", "UFE0F">>),
                       !.color = Some(Str_blue)]
      [] kind = "warning" ->
             [n EXCEPT !.icon = Some(<<"U26A0", "UFE0F">>),
                       !.color = Some(Str_yellow),
                       !.bold = TRUE]
      [] kind = "tip" ->
             [n EXCEPT !.icon = Some(<<"U1F4A1">>),
                       !.color = Some(Str_green)]
      [] OTHER -> n

\* char::to_lowercase of the letters that occur in the modelled names
UpperCase ==
    <<"A", "B", "C", "D", "E", "F", "G", "H", "I", "J", "K", "L", "M",
      "N", "O", "P", "Q", "R", "S", "T", "U", "V", "W", "X", "Y", "Z">>
LowerCase ==
    <<"a", "b", "c", "d", "e", "f", "g", "h", "i", "j", "k", "l", "m",
      "n", "o", "p", "q", "r", "s", "t", "u", "v", "w", "x", "y", "z">>

\* char::to_lowercase of the characters modelled
LowerChar(c) ==
    IF \E i \in 1..Len(UpperCase) : UpperCase[i] = c
    THEN LowerCase[CHOOSE i \in 1..Len(UpperCase) : UpperCase[i] = c]
    ELSE c

\* str::to_lowercase
to_lowercase(s) == [i \in 1..Len(s) |-> LowerChar(s[i])]

RECURSIVE trim_start(_)
\* str::trim_start
trim_start(s) ==
    IF s # <<>> /\ IsWhitespace(s[1]) THEN trim_start(Tail(s)) ELSE s

\* str::trim
trim(s) == trim_start(trim_end(s))

\* the colour match of Note::print, on the trimmed lower-case name
note_colour(name) ==
    LET color == to_lowercase(trim(name))
    IN  CASE color = Str_red -> "Red"
          [] color = Str_green -> "Green"
          [] color = Str_yellow -> "Yellow"
          [] color = Str_blue -> "Blue"
          [] color \in {Str_purple, Str_magenta} -> "Purple"
          [] color = Str_cyan -> "Cyan"
          [] color = Str_white -> "White"
          [] OTHER -> "none"

\* an unknown key falls back to the rounded glyphs
get_border_FallbackRounded(style) ==
    CASE style = "square" ->
             <<"U250C", "U2510", "U2514", "U2518", "U2500", "U2502">>
      [] style = "+" -> <<"+", "+", "+", "+", "-", "|">>
      [] OTHER -> <<"U256D", "U256E", "U2570", "U256F", "U2500", "U2502">>

\* get_border: (top-left, top-right, bottom-left, bottom-right,
\* horizontal, vertical).  note.rs is stored with the UTF-8 bytes of its
\* box-drawing characters read as Mac Roman and written again (U+256D
\* stands in the file as U+201A U+00EF U+2260); a format fill is one
\* character, so the file that compiles holds the characters themselves,
\* and those are the glyphs here.
get_border(style) ==
    CASE style = "rounded" ->
             <<"U256D", "U256E", "U2570", "U256F", "U2500", "U2502">>
      [] style = "square" ->
             <<"U250C", "U2510", "U2514", "U2518", "U2500", "U2502">>
      [] style = "+" -> <<"+", "+", "+", "+", "-", "|">>
      [] OTHER -> <<"U250C", "U2510", "U2514", "U2518", "U2500", "U2502">>

\* the Style built by Note::print
Note_style(n) ==
    [fg |-> IF n.color = None THEN "none" ELSE note_colour(n.color[1]),
     bold |-> n.bold]

\* Note::print: the three lines written (the content line without the
\* escape sequences of the style)
Note_print(n) ==
    LET b == get_border(n.style)
        content == IF n.icon = None THEN n.text
                   ELSE n.icon[1] \o <<" ">> \o n.text
        content_width == saturating_sub(n.width, 4)
        padded_content == pad(content, content_width)
        edge == Fill("U2500", saturating_sub(n.width, 2))
    IN  << <<b[1]>> \o edge \o <<b[2]>>,
           <<b[6], " ">> \o padded_content \o <<" ", b[6]>>,
           <<b[3]>> \o edge \o <<b[4]>> >>

(***************************************************************************)
(* A program builds one component with the builder methods, then prints.   *)
(***************************************************************************)
Hello == <<"H", "e", "l", "l", "o">>
World == <<"W", "o", "r", "l", "d">>

Titles == {<<>>, <<"a">>, <<"U4E2D", "a">>, Hello}
Contents == {<<"a">>, <<"a", "\n", "U2600", "a", "a">>, <<"\n", "a">>, World}
FrameWidths == (0..MaxBoxWidth) \cup {BoxedDefaultWidth, NoteDefaultWidth}
NoteTexts == {<<"a">>, <<"U4E2D", "a", "a", "a">>}
NoteIcons == {<<"U2600">>}
NoteColours == {Str_red, <<"R", "e", "d">>, <<" ", "r", "e", "d">>,
                Str_black, <<"p", "i", "n", "k">>}
NoteKinds == {"info", "warning", "tip", "danger", "INFO"}
FrameStyles == {"rounded", "square", "+", "zigzag", "plain", ""}

\* the driver calls pad and wrap_text only through a component
NoLayoutCall ==
    /\ text = <<>>
    /\ width = 0
    /\ padded = <<>>
    /\ repadded = <<>>
    /\ lines = <<>>
    /\ relines = <<>>

InitFramed ==
    /\ pc = "built"
    /\ \/ comp = "Boxed" /\ \E t \in Titles : cfg = Boxed_new(t)
       \/ comp = "Note" /\ \E t \in NoteTexts : cfg = Note_new(t)
    /\ out = <<>>
    /\ painted = PlainStyle
    /\ panicked = FALSE
    /\ overflow_checks \in BOOLEAN
    /\ NoInput
    /\ NoLayoutCall

\* a builder call: the configuration it returns and the call remembered
Call(c, name) ==
    /\ pc = "built"
    /\ cfg' = c
    /\ last_call' = name
    /\ UNCHANGED <<pc, comp, out, painted, panicked, overflow_checks,
                   stdin, reads, ret, layoutVars>>

\* a plain setter
Configure(c) == Call(c, "set")

\* Boxed::content
BoxedContent ==
    /\ comp = "Boxed"
    /\ \E t \in Contents : Configure([cfg EXCEPT !.content = t])

\* Boxed::width
BoxedWidth ==
    /\ comp = "Boxed"
    /\ \E w \in FrameWidths : Configure([cfg EXCEPT !.width = w])

\* Boxed::print
BoxedPrint ==
    /\ comp = "Boxed"
    /\ pc = "built"
    /\ LET r == Boxed_print(cfg, overflow_checks)
       IN  /\ out' = r.out
           /\ panicked' = r.panicked
    /\ pc' = "printed"
    /\ UNCHANGED <<comp, cfg, painted, overflow_checks, ioVars, layoutVars>>

\* Note::kind
NoteKind ==
    /\ comp = "Note"
    /\ \E k \in NoteKinds : Call(Note_kind(cfg, k), "kind(" \o k \o ")")

\* Note::icon
NoteIcon ==
    /\ comp = "Note"
    /\ \E i \in NoteIcons : Configure([cfg EXCEPT !.icon = Some(i)])

\* Note::color
NoteColor ==
    /\ comp = "Note"
    /\ \E c \in NoteColours : Configure([cfg EXCEPT !.color = Some(c)])

\* Note::bold
NoteBold ==
    /\ comp = "Note"
    /\ \E b \in BOOLEAN : Configure([cfg EXCEPT !.bold = b])

\* Note::style
NoteStyle ==
    /\ comp = "Note"
    /\ \E st \in FrameStyles : Configure([cfg EXCEPT !.style = st])

\* Note::width
NoteWidth ==
    /\ comp = "Note"
    /\ \E w \in FrameWidths : Configure([cfg EXCEPT !.width = w])

\* Note::print
NotePrint ==
    /\ comp = "Note"
    /\ pc = "built"
    /\ out' = Note_print(cfg)
    /\ painted' = Note_style(cfg)
    /\ pc' = "printed"
    /\ UNCHANGED <<comp, cfg, panicked, overflow_checks, ioVars, layoutVars>>

NextFramed ==
    \/ BoxedContent \/ BoxedWidth \/ BoxedPrint
    \/ NoteKind \/ NoteIcon \/ NoteColor \/ NoteBold \/ NoteStyle
    \/ NoteWidth \/ NotePrint

SpecFramed == InitFramed /\ [][NextFramed]_vars

(***************************************************************************)
(* Claims about the framed components.                                     *)
(***************************************************************************)
\* the content of a Note: the icon, a space and the text, or the text
NoteContent(n) ==
    IF n.icon = None THEN n.text ELSE n.icon[1] \o <<" ">> \o n.text

\* C9: a configured width below the fixed overhead (0 and 1 for Box, 0..3
\* for Note) never raises an error: print treats the interior width as
\* zero and completes, emitting all its lines with unpadded content.
C9_UnderflowNeverFails ==
    pc = "printed" =>
        /\ ~panicked
        /\ comp = "Boxed" =>
               /\ Len(out) = 4 + Len(str_lines(cfg.content))
               /\ cfg.width < 2 =>
                      out[2] = <<"U2502", " ">> \o cfg.title \o <<" ", "U2502">>
        /\ comp = "Note" =>
               /\ Len(out) = 3
               /\ cfg.width < 4 =>
                      out[2] = <<get_border(cfg.style)[6], " ">>
                                   \o NoteContent(cfg)
                                   \o <<" ", get_border(cfg.style)[6]>>

\* the lines Boxed::print is to emit for b, in order; the framed lines
\* hold the title or the content line after "│ " and before " │"
IsBoxedLayout(b, o) ==
    LET body == str_lines(b.content)
    IN  /\ Len(o) = 4 + Len(body)
        /\ o[1] = <<"U256D">> \o Fill("U2500", b.width) \o <<"U256E">>
        /\ IsPrefix(<<"U2502", " ">> \o b.title, o[2])
        /\ SubSeq(o[2], Len(o[2]) - 1, Len(o[2])) = <<" ", "U2502">>
        /\ o[3] = <<"U251C">> \o Fill("U2500", b.width) \o <<"U2524">>
        /\ \A i \in 1..Len(body) :
               /\ IsPrefix(<<"U2502", " ">> \o body[i], o[3 + i])
               /\ SubSeq(o[3 + i], Len(o[3 + i]) - 1, Len(o[3 + i]))
                      = <<" ", "U2502">>
        /\ o[Len(o)] = <<"U2570">> \o Fill("U2500", b.width) \o <<"U256F">>

\* the title and every content line are at most W - 2 columns wide
BoxedFits(b) ==
    /\ display_width(b.title) <= b.width - 2
    /\ \A i \in 1..Len(str_lines(b.content)) :
           display_width(str_lines(b.content)[i]) <= b.width - 2

\* C10: Boxed::print for width W emits the top border of W horizontal
\* glyphs between corners, the title line, a divider of W glyphs, one
\* framed line per content line in order, and the bottom border; when the
\* title and the content lines are at most W - 2 wide, every line is
\* exactly W + 2 wide (width 50, "Hello", "World": five lines of 52).
C10_BoxedLayout ==
    (pc = "printed" /\ comp = "Boxed") =>
        /\ IsBoxedLayout(cfg, out)
        /\ BoxedFits(cfg) =>
               \A i \in 1..Len(out) : display_width(out[i]) = cfg.width + 2
        /\ (cfg.width = 50 /\ cfg.title = Hello /\ cfg.content = World) =>
               /\ Len(out) = 5
               /\ \A i \in 1..5 : display_width(out[i]) = 52

\* the layout of C10 for the widths at which print does not panic
BoxedLayoutFromTwo ==
    (pc = "printed" /\ comp = "Boxed" /\ cfg.width >= 2) =>
        /\ ~panicked
        /\ IsBoxedLayout(cfg, out)
        /\ BoxedFits(cfg) =>
               \A i \in 1..Len(out) : display_width(out[i]) = cfg.width + 2
        /\ (cfg.width = 50 /\ cfg.title = Hello /\ cfg.content = World) =>
               /\ Len(out) = 5
               /\ \A i \in 1..5 : display_width(out[i]) = 52

\* the documented box has been printed
BoxedScenarioPrinted ==
    /\ pc = "printed"
    /\ comp = "Boxed"
    /\ cfg = [title |-> Hello, content |-> World, width |-> 50]
    /\ Len(out) = 5

\* a Note narrower than its overhead has been printed without padding
NoteUnderflowPrinted ==
    /\ pc = "printed"
    /\ comp = "Note"
    /\ cfg.width < 4
    /\ Len(out) = 3

(***************************************************************************)
(* Table (components/table.rs).                                            *)
(***************************************************************************)
MaxRows == 2

\* the largest element of a non-empty set of integers
MaxOf(S) == CHOOSE x \in S : \A y \in S : y <= x

\* Table::new
Table_new ==
    [headers |-> None, rows |-> <<>>, bordered |-> TRUE, widths |-> None]

\* col_count of Table::print: the number of headers, else the length of
\* the first row, else 0
col_count(t) ==
    IF t.headers # None THEN Len(t.headers[1])
    ELSE IF t.rows # <<>> THEN Len(t.rows[1])
    ELSE 0


\* h.len() / cell.len() in the derivation of the widths
\* the number of characters instead of bytes
cell_len_CharCount(cell) == Len(cell)

cell_len(cell) == ByteLen(cell)

\* max_widths[i] is indexed by every cell of every row: a row longer than
\* col_count is an index out of bounds
derive_panics(t) == \E r \in 1..Len(t.rows) : Len(t.rows[r]) > col_count(t)

\* the widths derived when none are configured: the longest header or
\* cell of the column, plus 2
derived_widths(t) ==
    [i \in 1..col_count(t) |->
        MaxOf({0}
              \cup (IF t.headers # None THEN {cell_len(t.headers[1][i])} ELSE {})
              \cup {cell_len(t.rows[r][i]) :
                        r \in {q \in 1..Len(t.rows) : i <= Len(t.rows[q])}})
            + 2]

\* self.widths.clone().unwrap_or_else(...)
table_widths(t) == IF t.widths # None THEN t.widths[1] ELSE derived_widths(t)

RECURSIVE border_cells(_, _)
\* the loop of draw_border: w dashes and a "+" per column
border_cells(ws, i) ==
    IF i > Len(ws) THEN <<>>
    ELSE Fill("-", ws[i]) \o <<"+">> \o border_cells(ws, i + 1)

\* draw_border: one line when bordered, nothing otherwise
draw_border(t, ws) ==
    IF t.bordered THEN << <<"+">> \o border_cells(ws, 1) >> ELSE <<>>

cell_interior_Full(w, checks) == [panic |-> FALSE, val |-> w]

\* widths[i] - 2
cell_interior(w, checks) == usize_sub(w, 2, checks)

RECURSIVE draw_cells(_, _, _, _, _, _)
\* the loop of draw_row from cell i on; line is what print! has written
\* of the row so far.  Indexing widths past its end, the subtraction and
\* the padding can panic, which leaves the line unfinished.
draw_cells(t, ws, row, i, line, checks) ==
    IF i > Len(row) THEN [line |-> line, panicked |-> FALSE]
    ELSE IF i > Len(ws) THEN [line |-> line, panicked |-> TRUE]
    ELSE LET inner == cell_interior(ws[i], checks)
             sep == IF t.bordered THEN <<"|">>
                    ELSE IF i < Len(row) THEN <<" ">>
                    ELSE <<>>
         IN  IF inner.panic \/ repeat_panics(padding(row[i], inner.val))
             THEN [line |-> line, panicked |-> TRUE]
             ELSE draw_cells(t, ws, row, i + 1,
                             line \o <<" ">> \o pad(row[i], inner.val)
                                  \o <<" ">> \o sep,
                             checks)

\* draw_row
draw_row(t, ws, row, checks) ==
    draw_cells(t, ws, row, 1, IF t.bordered THEN <<"|">> ELSE <<>>, checks)

\* the calls of draw_border and draw_row that print makes, in order
table_calls(t) ==
    LET b == [kind |-> "border", row |-> <<>>]
    IN  (IF t.headers # None
         THEN <<b, [kind |-> "row", row |-> t.headers[1]], b>>
         ELSE <<>>)
        \o [r \in 1..Len(t.rows) |-> [kind |-> "row", row |-> t.rows[r]]]
        \o (IF t.bordered THEN <<b>> ELSE <<>>)

RECURSIVE run_calls(_, _, _, _, _)
\* print's calls from the first of cs on; a panic ends the output
run_calls(t, ws, cs, acc, checks) ==
    IF cs = <<>> THEN [out |-> acc, panicked |-> FALSE]
    ELSE IF Head(cs).kind = "border"
    THEN run_calls(t, ws, Tail(cs), acc \o draw_border(t, ws), checks)
    ELSE LET r == draw_row(t, ws, Head(cs).row, checks)
         IN  IF r.panicked
             THEN [out |-> Append(acc, r.line), panicked |-> TRUE]
             ELSE run_calls(t, ws, Tail(cs), Append(acc, r.line), checks)

\* Table::print: the lines written (the last one unfinished after a
\* panic) and whether the thread panicked
Table_print(t, checks) ==
    IF t.widths = None /\ derive_panics(t)
    THEN [out |-> <<>>, panicked |-> TRUE]
    ELSE run_calls(t, table_widths(t), table_calls(t), <<>>, checks)

\* cells and rows of the tables built
Cell_a == <<"a">>
Cell_wide == <<"U4E2D">>
Row_names == <<<<"N", "a", "m", "e">>, <<"S", "t", "a", "t", "u", "s">>>>
Row_cliux == <<<<"c", "l", "i", "u", "x">>, <<"a", "c", "t", "i", "v", "e">>>>
Row_other == <<<<"o", "t", "h", "e", "r">>, <<"p", "e", "n", "d", "i", "n", "g">>>>
ScenarioWidths == <<20, 10>>

TableRows ==
    {<<Cell_a>>, <<Cell_wide>>, <<Cell_a, Cell_wide>>,
     Row_names, Row_cliux, Row_other}
TableWidthValues == {1, 2, 4}
TableWidthLists ==
    {<<w>> : w \in TableWidthValues}
        \cup {<<v, w>> : v \in TableWidthValues, w \in TableWidthValues}
        \cup {ScenarioWidths}

InitTable ==
    /\ pc = "built"
    /\ comp = "Table"
    /\ cfg = Table_new
    /\ out = <<>>
    /\ painted = PlainStyle
    /\ panicked = FALSE
    /\ overflow_checks \in BOOLEAN
    /\ NoInput
    /\ NoLayoutCall

\* Table::headers
TableHeaders ==
    /\ comp = "Table"
    /\ \E h \in TableRows : Configure([cfg EXCEPT !.headers = Some(h)])

\* Table::row
TableRow ==
    /\ comp = "Table"
    /\ Len(cfg.rows) < MaxRows
    /\ \E r \in TableRows : Configure([cfg EXCEPT !.rows = Append(@, r)])

\* Table::bordered
TableBordered ==
    /\ comp = "Table"
    /\ \E b \in BOOLEAN : Configure([cfg EXCEPT !.bordered = b])

\* Table::widths
TableWidths ==
    /\ comp = "Table"
    /\ \E ws \in TableWidthLists : Configure([cfg EXCEPT !.widths = Some(ws)])

\* Table::print
TablePrint ==
    /\ comp = "Table"
    /\ pc = "built"
    /\ LET r == Table_print(cfg, overflow_checks)
       IN  /\ out' = r.out
           /\ panicked' = r.panicked
    /\ pc' = "printed"
    /\ UNCHANGED <<comp, cfg, painted, overflow_checks, ioVars, layoutVars>>

NextTable ==
    TableHeaders \/ TableRow \/ TableBordered \/ TableWidths \/ TablePrint

SpecTable == InitTable /\ [][NextTable]_vars

(***************************************************************************)
(* Claims about Table.                                                     *)
(***************************************************************************)
RECURSIVE Sum(_)
Sum(ws) == IF ws = <<>> THEN 0 ELSE Head(ws) + Sum(Tail(ws))

\* explicit widths, one per column, each at least 2, and every row (the
\* headers included) of exactly col_count cells
RegularExplicit(t) ==
    /\ t.widths # None
    /\ Len(t.widths[1]) = col_count(t)
    /\ \A i \in 1..Len(t.widths[1]) : t.widths[1][i] >= 2
    /\ \A r \in 1..Len(t.rows) : Len(t.rows[r]) = col_count(t)

\* every header and cell is at most its column's width minus 2 wide
CellsFit(t) ==
    /\ \A i \in 1..col_count(t) :
           display_width(t.headers[1][i]) <= t.widths[1][i] - 2
    /\ \A r \in 1..Len(t.rows) : \A i \in 1..col_count(t) :
           display_width(t.rows[r][i]) <= t.widths[1][i] - 2

RECURSIVE FramedCells(_, _, _)
\* a bordered row: each cell between single spaces, filled with spaces to
\* its column's width minus 2, and a "|" after it
FramedCells(row, ws, i) ==
    IF i > Len(row) THEN <<>>
    ELSE <<" ">> \o row[i]
             \o Spaces(ws[i] - 2 - display_width(row[i]))
             \o <<" ", "|">> \o FramedCells(row, ws, i + 1)

RECURSIVE DashedCells(_, _)
DashedCells(ws, i) ==
    IF i > Len(ws) THEN <<>>
    ELSE Fill("-", ws[i]) \o <<"+">> \o DashedCells(ws, i + 1)

BorderLine(ws) == <<"+">> \o DashedCells(ws, 1)
RowLine(row, ws) == <<"|">> \o FramedCells(row, ws, 1)

\* the lines C11 describes, with `count` lines in all
TableLines(count) ==
    (/\ pc = "printed" /\ comp = "Table"
     /\ cfg.bordered /\ cfg.headers # None
     /\ RegularExplicit(cfg) /\ CellsFit(cfg)) =>
        LET ws == cfg.widths[1]
            n == Len(cfg.rows)
        IN  /\ ~panicked
            /\ Len(out) = count
            /\ out[1] = BorderLine(ws)
            /\ out[2] = RowLine(cfg.headers[1], ws)
            /\ out[3] = BorderLine(ws)
            /\ \A r \in 1..n : out[3 + r] = RowLine(cfg.rows[r], ws)
            /\ out[Len(out)] = BorderLine(ws)
            /\ \A k \in 1..Len(out) :
                   display_width(out[k]) = Sum(ws) + col_count(cfg) + 1

\* C11 as stated: a bordered table with headers, n rows, explicit widths
\* (each >= 2), rows of exactly col_count cells and every cell at most its
\* width minus 2 wide emits exactly n + 3 lines: top border, header row,
\* separator, the rows in insertion order, bottom border, each
\* sum(widths) + col_count + 1 wide.
C11_BorderedTableLines == TableLines(Len(cfg.rows) + 3)

\* C11 amended: the same lines, which are n + 4 in number.
C11_BorderedTableLinesPlus4 == TableLines(Len(cfg.rows) + 4)

\* the documented table has been printed: headers Name / Status, the rows
\* cliux / active and other / pending, widths 20 and 10, bordered
C11_Witness ==
    /\ pc = "printed" /\ comp = "Table"
    /\ cfg = [headers |-> Some(Row_names), rows |-> <<Row_cliux, Row_other>>,
              bordered |-> TRUE, widths |-> Some(ScenarioWidths)]
    /\ Len(out) = 6
    /\ \A k \in 1..6 : display_width(out[k]) = 33

\* C12: with explicit widths, content that exceeds its column is wrapped
\* inside the column, so no rendered line extends past the column
\* boundaries of the border.
C12_CellsWrapInsideColumn ==
    (/\ pc = "printed" /\ comp = "Table"
     /\ cfg.bordered /\ cfg.headers # None
     /\ RegularExplicit(cfg)) =>
        /\ ~panicked
        /\ \A k \in 1..Len(out) :
               display_width(out[k]) = Sum(cfg.widths[1]) + col_count(cfg) + 1

\* a table whose cell is wider than its explicit column has been printed
C12_Witness ==
    /\ pc = "printed" /\ comp = "Table"
    /\ cfg.bordered /\ cfg.headers # None
    /\ RegularExplicit(cfg)
    /\ \E r \in 1..Len(cfg.rows) : \E i \in 1..col_count(cfg) :
           display_width(cfg.rows[r][i]) > cfg.widths[1][i]

\* no widths configured, at least one column, rows of col_count cells
RegularDerived(t) ==
    /\ t.widths = None
    /\ col_count(t) >= 1
    /\ \A r \in 1..Len(t.rows) : Len(t.rows[r]) = col_count(t)

\* the widest display width of the header and the cells of column i
ColumnDisplayWidth(t, i) ==
    MaxOf({0}
          \cup (IF t.headers # None THEN {display_width(t.headers[1][i])} ELSE {})
          \cup {display_width(t.rows[r][i]) : r \in 1..Len(t.rows)})

\* C13: without explicit widths each column's width is the maximum display
\* width (not byte length) over its header and cells, plus 2; a column
\* whose widest cell is one double-width character is 4 wide.
C13_DerivedFromDisplayWidth ==
    (/\ pc = "printed" /\ comp = "Table"
     /\ cfg.bordered /\ RegularDerived(cfg)) =>
        /\ ~panicked
        /\ out[Len(out)] =
               BorderLine([i \in 1..col_count(cfg) |->
                              ColumnDisplayWidth(cfg, i) + 2])

\* a table with a double-width cell and derived widths has been printed
C13_Witness ==
    /\ pc = "printed" /\ comp = "Table"
    /\ cfg.bordered /\ RegularDerived(cfg)
    /\ cfg.rows = << <<Cell_wide>> >>
    /\ cfg.headers = None

(***************************************************************************)
(* components::list::List                                                  *)
(***************************************************************************)
MaxItems == 2

\* List::new
List_new(items) == [items |-> items, bullet |-> Some(<<"U2022">>), width |-> None]

Digit(d) == <<"0", "1", "2", "3", "4", "5", "6", "7", "8", "9">>[d + 1]

RECURSIVE decimal(_)
\* Display for usize, as format!("{}", i + 1) writes it
decimal(n) ==
    IF n < 10 THEN <<Digit(n)>> ELSE decimal(n \div 10) \o <<Digit(n % 10)>>

\* the ordinal of the item at (1-based) position i, numbered from zero
list_prefix_ZeroBased(l, i) ==
    IF l.bullet # None THEN l.bullet[1] \o <<" ">>
    ELSE decimal(i - 1) \o <<".", " ">>

\* print's prefix of the item at (1-based) position i, enumerate's i + 1
list_prefix(l, i) ==
    IF l.bullet # None THEN l.bullet[1] \o <<" ">>
    ELSE decimal(i) \o <<".", " ">>

\* the wrap width ignores the prefix
wrap_width_Whole(w, prefix) == w

\* w.saturating_sub(prefix.len())
wrap_width(w, prefix) == saturating_sub(w, ByteLen(prefix))

\* print's lines of the item at position i
item_lines(l, i) ==
    IF l.width # None
    THEN wrap_text(l.items[i], wrap_width(l.width[1], list_prefix(l, i)))
    ELSE <<l.items[i]>>

\* " ".repeat(prefix.len())
list_indent(prefix) == Spaces(ByteLen(prefix))

\* the inner loop of print: one println! per line of the item
print_item(prefix, ls) ==
    [j \in 1..Len(ls) |->
        IF j = 1 THEN prefix \o ls[j] ELSE list_indent(prefix) \o ls[j]]

RECURSIVE print_items(_, _)
\* the outer loop of print from the item at position i on
print_items(l, i) ==
    IF i > Len(l.items) THEN <<>>
    ELSE print_item(list_prefix(l, i), item_lines(l, i)) \o print_items(l, i + 1)

\* List::print: the text of each println!, in order
List_print(l) == print_items(l, 1)

\* items, bullets and widths of the lists built
Item_ab == <<"a", "b">>
Item_words == <<"a", "a", " ", "b", " ", "c", "c">>
ListItems == {<<>>, Item_ab, Item_words, DocSentence}
ListBullets == {<<"*">>, <<"U2022">>, <<"U1F44B">>, <<>>}
ScenarioListWidth == 40
ListWidths == {0, 3, 5, 6, ScenarioListWidth}

InitList ==
    /\ pc = "built"
    /\ comp = "List"
    /\ \E its \in SeqsUpTo(ListItems, MaxItems) : cfg = List_new(its)
    /\ out = <<>>
    /\ painted = PlainStyle
    /\ panicked = FALSE
    /\ overflow_checks \in BOOLEAN
    /\ NoInput
    /\ NoLayoutCall

\* a builder call of List: the new value and the mode call remembered
ListConfigure(c, call) ==
    /\ comp = "List"
    /\ pc = "built"
    /\ cfg' = c
    /\ last_call' = call
    /\ UNCHANGED <<pc, comp, out, painted, panicked, overflow_checks,
                   stdin, reads, ret, layoutVars>>

\* List::bullet
ListBullet ==
    \E b \in ListBullets : ListConfigure([cfg EXCEPT !.bullet = Some(b)], "bullet")

\* List::numbered
ListNumbered == ListConfigure([cfg EXCEPT !.bullet = None], "numbered")

\* List::width
ListWidth ==
    \E w \in ListWidths : ListConfigure([cfg EXCEPT !.width = Some(w)], last_call)

\* List::print
ListPrint ==
    /\ comp = "List"
    /\ pc = "built"
    /\ out' = List_print(cfg)
    /\ pc' = "printed"
    /\ UNCHANGED <<comp, cfg, painted, panicked, overflow_checks, ioVars, layoutVars>>

NextList == ListBullet \/ ListNumbered \/ ListWidth \/ ListPrint

SpecList == InitList /\ [][NextList]_vars

(***************************************************************************)
(* Claims about List.                                                      *)
(***************************************************************************)
RECURSIVE Offset(_, _)
\* the number of lines print writes before the item at position i
Offset(l, i) == IF i <= 1 THEN 0 ELSE Offset(l, i - 1) + Len(item_lines(l, i - 1))

RECURSIVE LeadingSpaces(_)
LeadingSpaces(s) ==
    IF s # <<>> /\ Head(s) = " " THEN 1 + LeadingSpaces(Tail(s)) ELSE 0

\* the j-th line print wrote for the item at position i
ItemLine(i, j) == out[Offset(cfg, i) + j]

ListPrinted == comp = "List" /\ pc = "printed"

\* C14: every continuation line of a wrapped item starts with exactly as
\* many spaces as the item's prefix is wide on the terminal; for the
\* bullet "*" that is 2 spaces.
C14_IndentIsPrefixDisplayLength ==
    ListPrinted =>
        \A i \in 1..Len(cfg.items) :
            \A j \in 2..Len(item_lines(cfg, i)) :
                LeadingSpaces(ItemLine(i, j)) = display_width(list_prefix(cfg, i))

\* a printed list with the default bullet and an item of several lines
C14_Witness ==
    /\ ListPrinted
    /\ cfg.bullet = Some(<<"U2022">>)
    /\ \E i \in 1..Len(cfg.items) : Len(item_lines(cfg, i)) >= 2

\* the continuation lines of the scenario (bullet "*", width 40) carry
\* 2 spaces
StarIndentIsTwo ==
    (ListPrinted /\ cfg.bullet = Some(<<"*">>)) =>
        \A i \in 1..Len(cfg.items) :
            \A j \in 2..Len(item_lines(cfg, i)) :
                LeadingSpaces(ItemLine(i, j)) = 2

\* what the claim names as prefix of the item at position i: by the last
\* mode call
ClaimedPrefix(i) ==
    CASE last_call = "numbered" -> decimal(i) \o <<".", " ">>
      [] last_call = "bullet" -> cfg.bullet[1] \o <<" ">>
      [] OTHER -> <<"U2022", " ">>

\* the lines the claim gives the item at position i; the length of a
\* prefix is its length in bytes
ClaimedLines(i) ==
    IF cfg.width = None THEN <<cfg.items[i]>>
    ELSE LET w == cfg.width[1]
             n == ByteLen(ClaimedPrefix(i))
         IN  wrap_text(cfg.items[i], IF n > w THEN 0 ELSE w - n)

RECURSIVE SumLens(_, _)
SumLens(F(_), n) == IF n = 0 THEN 0 ELSE SumLens(F, n - 1) + Len(F(n))

MaxReads == 3
ConfirmDefaultWidth == 40

\* Confirm::new
Confirm_new(l) ==
    [label |-> l, default |-> None, color |-> None, bold |-> FALSE,
     style |-> Some("square"), width |-> ConfirmDefaultWidth]

\* label::parse_colour
parse_colour(name) ==
    LET color == to_lowercase(name)
    IN  CASE color = Str_black -> "Black"
          [] color = Str_red -> "Red"
          [] color = Str_green -> "Green"
          [] color = Str_yellow -> "Yellow"
          [] color = Str_blue -> "Blue"
          [] color \in {Str_purple, Str_magenta} -> "Purple"
          [] color = Str_cyan -> "Cyan"
          [] color = Str_white -> "White"
          [] OTHER -> "none"

\* the Style prompt paints the label with
Confirm_style(c) ==
    [fg |-> IF c.color = None THEN "none" ELSE parse_colour(c.color[1]),
     bold |-> c.bold]

Str_yn == <<" ", "(", "y", "/", "n", ")">>
Str_prompt == <<">", " ">>
Str_invalid ==
    <<"I", "n", "v", "a", "l", "i", "d", " ", "i", "n", "p", "u", "t", ".",
      " ", "P", "l", "e", "a", "s", "e", " ", "e", "n", "t", "e", "r", " ",
      "y", " ", "o", "r", " ", "n", ".">>

\* the three println! of the box and the print! of the input line, which
\* stays unfinished
confirm_box(c) ==
    LET b == get_border(IF c.style = None THEN "plain" ELSE c.style[1])
        padded_label == pad(c.label \o Str_yn, c.width)
    IN  << <<b[1]>> \o Fill(b[5], c.width) \o <<b[2]>>,
           <<b[6]>> \o padded_label \o <<b[6]>>,
           <<b[3]>> \o Fill(b[5], c.width) \o <<b[4]>>,
           Str_prompt >>

\* the empty line answers no whatever the default
confirm_answer_EmptyIsNo(c, line) ==
    LET input == to_lowercase(trim(line))
    IN  CASE input \in {<<"y">>, <<"y", "e", "s">>} -> Some(TRUE)
          [] input \in {<<"n">>, <<"n", "o">>} -> Some(FALSE)
          [] input = <<>> -> Some(FALSE)
          [] OTHER -> None

\* prompt's match on the line read: the value returned, None for the arm
\* that asks again
confirm_answer(c, line) ==
    LET input == to_lowercase(trim(line))
    IN  CASE input \in {<<"y">>, <<"y", "e", "s">>} -> Some(TRUE)
          [] input \in {<<"n">>, <<"n", "o">>} -> Some(FALSE)
          [] input = <<>> -> Some(IF c.default = None THEN FALSE ELSE c.default[1])
          [] OTHER -> None

\* stdout after println! of the diagnostic: it ends the input line
with_diagnostic(o) ==
    SubSeq(o, 1, Len(o) - 1) \o <<o[Len(o)] \o Str_invalid>>

\* what read_line finds on stdin: a line with its terminator, the end of
\* the stream (Ok(0), nothing appended) or an error (Err)
ReadLine(t) == [kind |-> "line", text |-> t]
ReadEof == [kind |-> "eof", text |-> <<>>]
ReadErr == [kind |-> "error", text |-> <<>>]

ConfirmLabels == {<<"o", "k">>, <<"U4E2D">>}
ConfirmColours == {Str_red, <<"B", "L", "A", "C", "K">>, <<"x">>}
ConfirmStyles == {"rounded", "+", "zigzag"}
ConfirmWidths == {0, 8}
TypedLines ==
    {<<"y", "\n">>, <<" ", "Y", "E", "S", " ", "\n">>, <<"n", "\n">>,
     <<"N", "o", "\n">>, <<"\n">>, <<" ", "\n">>, <<"n", "o">>,
     <<"x", "\n">>, <<"y", "e", "\n">>}

InitConfirm ==
    /\ pc = "built"
    /\ comp = "Confirm"
    /\ \E l \in ConfirmLabels : cfg = Confirm_new(l)
    /\ out = <<>>
    /\ painted = PlainStyle
    /\ panicked = FALSE
    /\ overflow_checks = FALSE
    /\ NoInput
    /\ NoLayoutCall

\* Confirm::default
ConfirmDefault ==
    /\ comp = "Confirm"
    /\ \E b \in BOOLEAN : Configure([cfg EXCEPT !.default = Some(b)])

\* Confirm::color
ConfirmColor ==
    /\ comp = "Confirm"
    /\ \E c \in ConfirmColours : Configure([cfg EXCEPT !.color = Some(c)])

\* Confirm::bold
ConfirmBold ==
    /\ comp = "Confirm"
    /\ \E b \in BOOLEAN : Configure([cfg EXCEPT !.bold = b])

\* Confirm::style
ConfirmStyle ==
    /\ comp = "Confirm"
    /\ \E s \in ConfirmStyles : Configure([cfg EXCEPT !.style = Some(s)])

\* Confirm::width
ConfirmWidth ==
    /\ comp = "Confirm"
    /\ \E w \in ConfirmWidths : Configure([cfg EXCEPT !.width = w])

\* Confirm::prompt from its call to the read_line it blocks in
ConfirmPrompt ==
    /\ comp = "Confirm"
    /\ pc = "built"
    /\ out' = confirm_box(cfg)
    /\ painted' = Confirm_style(cfg)
    /\ pc' = "reading"
    /\ last_call' = "prompt"
    /\ UNCHANGED <<comp, cfg, panicked, overflow_checks, stdin, reads, ret, layoutVars>>

\* read_line returns a line: prompt returns its answer, or prints the
\* diagnostic and calls itself, up to the next read_line
ConfirmReadLine ==
    /\ comp = "Confirm"
    /\ pc = "reading"
    /\ reads < MaxReads
    /\ \E t \in TypedLines :
        LET a == confirm_answer(cfg, t)
        IN  /\ stdin' = Append(stdin, ReadLine(t))
            /\ reads' = reads + 1
            /\ IF a # None
               THEN /\ ret' = a
                    /\ pc' = "returned"
                    /\ out' = out
               ELSE /\ ret' = ret
                    /\ pc' = "reading"
                    /\ out' = with_diagnostic(out) \o confirm_box(cfg)
    /\ UNCHANGED <<comp, cfg, painted, panicked, overflow_checks, last_call, layoutVars>>

\* read_line returns Ok(0) at the end of the stream: input stays empty
ConfirmReadEof ==
    /\ comp = "Confirm"
    /\ pc = "reading"
    /\ stdin' = Append(stdin, ReadEof)
    /\ reads' = reads + 1
    /\ ret' = confirm_answer(cfg, <<>>)
    /\ pc' = "returned"
    /\ UNCHANGED <<comp, cfg, out, painted, panicked, overflow_checks, last_call, layoutVars>>

\* read_line returns Err (an I/O error, a line that is not UTF-8):
\* unwrap panics
ConfirmReadError ==
    /\ comp = "Confirm"
    /\ pc = "reading"
    /\ stdin' = Append(stdin, ReadErr)
    /\ reads' = reads + 1
    /\ panicked' = TRUE
    /\ pc' = "panicked"
    /\ UNCHANGED <<comp, cfg, out, painted, ret, overflow_checks, last_call, layoutVars>>

NextConfirm ==
    \/ ConfirmDefault \/ ConfirmColor \/ ConfirmBold \/ ConfirmStyle
    \/ ConfirmWidth \/ ConfirmPrompt
    \/ ConfirmReadLine \/ ConfirmReadEof \/ ConfirmReadError

SpecConfirm == InitConfirm /\ [][NextConfirm]_vars

(***************************************************************************)
(* Claims about Confirm.                                                   *)
(***************************************************************************)
\* the line an entry of stdin gave prompt: nothing at the end of the stream
Typed(k) == stdin[k].text

Normal(line) == to_lowercase(trim(line))
IsYes(line) == Normal(line) \in {<<"y">>, <<"y", "e", "s">>}
IsNo(line) == Normal(line) \in {<<"n">>, <<"n", "o">>}
IsValid(line) == IsYes(line) \/ IsNo(line) \/ Normal(line) = <<>>
ConfiguredDefault == IF cfg.default = None THEN FALSE ELSE cfg.default[1]
Answer(line) ==
    IF IsYes(line) THEN TRUE ELSE IF IsNo(line) THEN FALSE ELSE ConfiguredDefault

Diagnostics == Count(Str_prompt \o Str_invalid, out)
PromptCycles == Diagnostics + Count(Str_prompt, out)
NoReadError == \A k \in 1..Len(stdin) : stdin[k].kind # "error"

\* C16: prompt returns the answer of the first line read that is valid
\* (y/yes, n/no, or empty: the default, false if none); every line before
\* it is invalid and gave one diagnostic and one more prompt cycle; while
\* only invalid lines were read prompt has not returned.
C16_FirstValidLineAnswers ==
    (comp = "Confirm" /\ pc \in {"reading", "returned"} /\ NoReadError) =>
        LET n == Len(stdin)
            invalid == IF pc = "returned" THEN n - 1 ELSE n
        IN  /\ reads = n
            /\ \A k \in 1..invalid : ~IsValid(Typed(k))
            /\ pc = "returned" =>
                /\ IsValid(Typed(n))
                /\ ret = Some(Answer(Typed(n)))
            /\ pc = "reading" => ret = None
            /\ Diagnostics = invalid
            /\ PromptCycles = invalid + 1
            /\ \A i \in 1..Len(out) :
                out[i] = Str_prompt \o Str_invalid =>
                    /\ i + 4 <= Len(out)
                    /\ SubSeq(out, i + 1, i + 3) = SubSeq(confirm_box(cfg), 1, 3)
                    /\ SubSeq(out[i + 4], 1, 2) = Str_prompt

\* prompt returned the default true on an empty line typed after two
\* invalid lines
C16_Witness ==
    /\ comp = "Confirm"
    /\ pc = "returned"
    /\ Len(stdin) = 3
    /\ ~IsValid(Typed(1)) /\ ~IsValid(Typed(2))
    /\ Typed(3) = <<" ", "\n">>
    /\ cfg.default = Some(TRUE)
    /\ ret = Some(TRUE)
    /\ Diagnostics = 2

\* C17: when read_line finds the end of the stream or fails, prompt
\* returns the default (false if none): it neither fails nor asks again.
C17_EndOrErrorReturnsDefault ==
    (comp = "Confirm" /\ stdin # <<>>
        /\ stdin[Len(stdin)].kind \in {"eof", "error"}) =>
            /\ ~panicked
            /\ pc = "returned"
            /\ ret = Some(ConfiguredDefault)

\* read_line failed after an invalid line
C17_Witness ==
    /\ comp = "Confirm"
    /\ Len(stdin) = 2
    /\ stdin[1].kind = "line"
    /\ stdin[2].kind = "error"

\* at the end of the stream prompt returns the default
EndOfStreamReturnsDefault ==
    (comp = "Confirm" /\ stdin # <<>> /\ stdin[Len(stdin)].kind = "eof") =>
        ~panicked /\ pc = "returned" /\ ret = Some(ConfiguredDefault)

(***************************************************************************)
(* Claims about frame styles.                                              *)
(***************************************************************************)
RoundGlyphs == <<"U256D", "U256E", "U2570", "U256F", "U2500", "U2502">>
RightAngleGlyphs == <<"U250C", "U2510", "U2514", "U2518", "U2500", "U2502">>
AsciiGlyphs == <<"+", "+", "+", "+", "-", "|">>

NotePrinted == comp = "Note" /\ pc = "printed"

\* C18: get_border resolves every key: "rounded" to the round corners,
\* "square" to the right angles, "+" to the ASCII glyphs with '-' and '|',
\* any other key to the same 6-tuple as "square"; the corners and the
\* vertical glyph of a printed Note are the resolved ones.
C18_BorderResolution ==
    NotePrinted =>
        LET b == get_border(cfg.style)
        IN  /\ cfg.style = "rounded" => b = RoundGlyphs
            /\ cfg.style = "square" => b = RightAngleGlyphs
            /\ cfg.style = "+" => b = AsciiGlyphs
            /\ cfg.style \notin {"rounded", "square", "+"} =>
                b = get_border("square") /\ b = RightAngleGlyphs
            /\ out[1][1] = b[1] /\ out[1][Len(out[1])] = b[2]
            /\ out[3][1] = b[3] /\ out[3][Len(out[3])] = b[4]
            /\ out[2][1] = b[6] /\ out[2][Len(out[2])] = b[6]

\* a Note printed with the unknown key "zigzag" has right-angle corners
C18_Witness ==
    /\ NotePrinted
    /\ cfg.style = "zigzag"
    /\ out[1][1] = "U250C"
    /\ out[3][Len(out[3])] = "U2518"

\* C19: the frame of a printed Note is made of the glyphs of its resolved
\* style only: corners joined by the style's horizontal glyph on the
\* border lines, the style's vertical glyph around the content line.
C19_FrameFromResolvedStyle ==
    NotePrinted =>
        LET b == get_border(cfg.style)
            n == Len(out[1]) - 2
        IN  /\ out[1] = <<b[1]>> \o Fill(b[5], n) \o <<b[2]>>
            /\ out[3] = <<b[3]>> \o Fill(b[5], n) \o <<b[4]>>
            /\ out[2][1] = b[6] /\ out[2][Len(out[2])] = b[6]

\* a Note printed with style "+" at a width that leaves room between the
\* corners
C19_Witness ==
    /\ NotePrinted
    /\ cfg.style = "+"
    /\ Len(out[1]) >= 3
    /\ out[1][1] = "+"

(***************************************************************************)
(* Claims about the width measurement of pad.                              *)
(***************************************************************************)
InSymbolRanges(c) ==
    \/ CodePoint(c) >= 9728 /\ CodePoint(c) <= 9983
    \/ CodePoint(c) >= 127744 /\ CodePoint(c) <= 129791

\* the width of a cluster when only a cluster of one codepoint is widened
SingleCodepointWidth(g) ==
    IF Len(g) = 1 /\ InSymbolRanges(g[1]) /\ StrWidth(g) = 1
    THEN 2 ELSE StrWidth(g)

\* the width of a cluster when a cluster holding a symbol is widened
AnyCodepointWidth(g) ==
    IF (\E i \in 1..Len(g) : InSymbolRanges(g[i])) /\ StrWidth(g) = 1
    THEN 2 ELSE StrWidth(g)

RECURSIVE SumWidths(_, _)
SumWidths(W(_), gs) ==
    IF gs = <<>> THEN 0 ELSE W(Head(gs)) + SumWidths(W, Tail(gs))

IsAsciiText(s) == \A i \in 1..Len(s) : s[i] \in {"a", " "}

\* pad measured text as m columns: the spaces it appended say so
Measured(m) ==
    /\ display_width(text) = m
    /\ Len(padded) - Len(text) = Max(0, width - m)
    /\ text = <<>> => m = 0
    /\ IsAsciiText(text) => m = Len(text)

\* C20 as stated: only a cluster that is a single codepoint of the symbol
\* ranges with standard width 1 counts 2 columns; every other cluster
\* keeps its standard width, and the width of a string is the sum.
C20_OverrideSingleCodepointOnly ==
    pc # "start" => Measured(SumWidths(SingleCodepointWidth, graphemes(text)))

\* C20: a cluster with at least one codepoint in the symbol ranges and
\* standard width 1 counts 2 columns, whatever its number of codepoints;
\* every other cluster keeps its standard width, and the width of a
\* string is the sum (empty: 0, single-width ASCII: the character count).
C20_OverrideAnySymbolCodepoint ==
    pc # "start" => Measured(SumWidths(AnyCodepointWidth, graphemes(text)))

\* pad measured the cluster U+2600 U+0301 as 2 columns
C20_Witness ==
    /\ pc = "padded"
    /\ text = <<"U2600", "U0301">>
    /\ width = 3
    /\ padded = <<"U2600", "U0301", " ">>

(***************************************************************************)
(* components::label::Label                                                *)
(***************************************************************************)
\* Label::new
Label_new(t) == [text |-> t, color |-> None, bold |-> FALSE]

\* Label::color, Label::bold
Label_color(l, c) == [l EXCEPT !.color = Some(c)]
Label_bold(l, b) == [l EXCEPT !.bold = b]

\* an unknown name clears the colour
Label_style_UnknownResets(l, style) ==
    CASE style = "info" -> Label_bold(Label_color(l, Str_blue), TRUE)
      [] style = "success" -> Label_color(l, Str_green)
      [] style = "error" -> Label_bold(Label_color(l, Str_red), TRUE)
      [] OTHER -> [l EXCEPT !.color = None]

\* Label::style
Label_style(l, style) ==
    CASE style = "info" -> Label_bold(Label_color(l, Str_blue), TRUE)
      [] style = "success" -> Label_color(l, Str_green)
      [] style = "error" -> Label_bold(Label_color(l, Str_red), TRUE)
      [] OTHER -> l

\* the Style print and inline paint with
Label_paint(l) ==
    [fg |-> IF l.color = None THEN "none" ELSE parse_colour(l.color[1]),
     bold |-> l.bold]

\* format!("[{}]", self.text)
Label_text(l) == <<"[">> \o l.text \o <<"]">>

LabelTexts == {<<"o", "k">>, <<>>}
LabelColours ==
    {Str_red, <<"B", "L", "A", "C", "K">>, <<" ", "r", "e", "d">>,
     <<"p", "i", "n", "k">>, <<>>}
LabelStyles == {"info", "success", "error", "danger", "Success", ""}

\* Label::color
LabelColor ==
    /\ comp = "Label"
    /\ \E c \in LabelColours : Configure(Label_color(cfg, c))

\* Label::bold
LabelBold ==
    /\ comp = "Label"
    /\ \E b \in BOOLEAN : Configure(Label_bold(cfg, b))

\* Label::style
LabelStyle ==
    /\ comp = "Label"
    /\ \E st \in LabelStyles : Call(Label_style(cfg, st), "style(" \o st \o ")")

\* Label::print
LabelPrint ==
    /\ comp = "Label"
    /\ pc = "built"
    /\ out' = <<Label_text(cfg)>>
    /\ painted' = Label_paint(cfg)
    /\ pc' = "printed"
    /\ UNCHANGED <<comp, cfg, panicked, overflow_checks, ioVars, layoutVars>>

\* Label::inline
LabelInline ==
    /\ comp = "Label"
    /\ pc = "built"
    /\ ret' = Some(Label_text(cfg))
    /\ painted' = Label_paint(cfg)
    /\ pc' = "returned"
    /\ UNCHANGED <<comp, cfg, out, panicked, overflow_checks, stdin, reads,
                   last_call, layoutVars>>

\* Labels and Notes, built and printed
InitKeywords ==
    /\ pc = "built"
    /\ \/ comp = "Label" /\ \E t \in LabelTexts : cfg = Label_new(t)
       \/ comp = "Note" /\ \E t \in NoteTexts : cfg = Note_new(t)
    /\ out = <<>>
    /\ painted = PlainStyle
    /\ panicked = FALSE
    /\ overflow_checks = FALSE
    /\ NoInput
    /\ NoLayoutCall

NextKeywords ==
    \/ LabelColor \/ LabelBold \/ LabelStyle \/ LabelPrint \/ LabelInline
    \/ NoteKind \/ NoteIcon \/ NoteColor \/ NoteBold \/ NoteStyle
    \/ NoteWidth \/ NotePrint

SpecKeywords == InitKeywords /\ [][NextKeywords]_vars

(***************************************************************************)
(* Claims about keywords.                                                  *)
(***************************************************************************)
ColourNames ==
    {Str_black, Str_red, Str_green, Str_yellow, Str_blue, Str_purple,
     Str_magenta, Str_cyan, Str_white}

\* a name no reading takes for a colour
UnknownColour(c) == to_lowercase(trim(c)) \notin ColourNames

LabelPresets == {"info", "success", "error"}
NotePresets == {"info", "warning", "tip"}

StyleCalled(st) == comp = "Label" /\ last_call' = "style(" \o st \o ")"
KindCalled(k) == comp = "Note" /\ last_call' = "kind(" \o k \o ")"

\* what a step of the builder or of print does to the keywords it is given
KeywordStep ==
    /\ \A st \in LabelStyles \ LabelPresets : StyleCalled(st) => cfg' = cfg
    /\ \A k \in NoteKinds \ NotePresets : KindCalled(k) => cfg' = cfg
    /\ StyleCalled("success") => cfg' = [cfg EXCEPT !.color = Some(Str_green)]
    /\ StyleCalled("info") =>
        cfg' = [cfg EXCEPT !.color = Some(Str_blue), !.bold = TRUE]
    /\ StyleCalled("error") =>
        cfg' = [cfg EXCEPT !.color = Some(Str_red), !.bold = TRUE]
    /\ KindCalled("info") =>
        cfg' = [cfg EXCEPT !.icon = Some(<<"U2139", "UFE0F">>),
                           !.color = Some(Str_blue)]
    /\ KindCalled("warning") =>
        cfg' = [cfg EXCEPT !.icon = Some(<<"U26A0", "UFE0F">>),
                           !.color = Some(Str_yellow), !.bold = TRUE]
    /\ KindCalled("tip") =>
        cfg' = [cfg EXCEPT !.icon = Some(<<"U1F4A1">>),
                           !.color = Some(Str_green)]
    /\ (pc = "built" /\ pc' \in {"printed", "returned"}) =>
        /\ ~panicked'
        /\ (cfg.color # None /\ UnknownColour(cfg.color[1])) =>
            painted' = [fg |-> "none", bold |-> cfg.bold]

\* C21: a call of Label::style or Note::kind with an unrecognised name
\* leaves every field as it was, a preset changes the fields it documents
\* and no other ("success": colour green, bold as it was), and a text
\* whose colour name is unrecognised is rendered with no colour; none of
\* them fails.
C21_UnknownKeywordsChangeNothing == [][KeywordStep]_vars

\* a bold Label of colour "pink", printed after style("danger")
C21_Witness ==
    /\ comp = "Label"
    /\ pc = "printed"
    /\ last_call = "style(danger)"
    /\ cfg.bold
    /\ cfg.color = Some(<<"p", "i", "n", "k">>)
    /\ painted = [fg |-> "none", bold |-> TRUE]

(***************************************************************************)
(* More claims about Table.                                                *)
(***************************************************************************)
TablePrinted == comp = "Table" /\ pc = "printed"

\* C22: Table::print completes without a runtime failure whatever the
\* builder was given: rows longer than the column count, a widths list
\* shorter than a row, a column width of 0 or 1.
C22_TablePrintNeverFails == TablePrinted => ~panicked

\* print was called on a table with derived widths whose row has more
\* cells than its header
C22_Witness ==
    /\ TablePrinted
    /\ cfg.widths = None
    /\ cfg.headers = Some(<<Cell_a>>)
    /\ cfg.rows = << <<Cell_a, Cell_wide>> >>

\* print fails on a widths list shorter than a row
ShortWidthsFail ==
    (TablePrinted /\ cfg.widths # None
        /\ \E r \in 1..Len(cfg.rows) : Len(cfg.rows[r]) > Len(cfg.widths[1]))
        => panicked

\* print fails on a column width of 1 under a cell
NarrowWidthFails ==
    (TablePrinted /\ cfg.widths = Some(<<1>>) /\ cfg.headers # None) => panicked

(***************************************************************************)
(* More claims about wrap_text.                                            *)
(***************************************************************************)
\* C23: wrap_text returns no empty line: every line holds at least one
\* word, also when the first word of a paragraph is as long as the width
\* or longer and when the width is 0.
C23_NoEmptyLine ==
    pc # "start" => \A i \in 1..Len(lines) : Words(lines[i]) # <<>>

\* a text of one word as long as the width, wrapped
C23_Witness ==
    /\ pc = "wrapped"
    /\ text = <<"a", "a">>
    /\ width = 2
    /\ Len(lines) = 2

RECURSIVE AllWords(_)
\* the words of the lines of ls, read in order
AllWords(ls) == IF ls = <<>> THEN <<>> ELSE Words(Head(ls)) \o AllWords(Tail(ls))

\* C24: the words of the lines wrap_text returns, read in order, are the
\* words of the text in order, none dropped, doubled, moved or split, and
\* no line starts or ends with whitespace.
C24_WordsPreserved ==
    pc # "start" =>
        /\ AllWords(lines) = Words(text)
        /\ \A i \in 1..Len(lines) :
            lines[i] # <<>> =>
                /\ ~IsWhitespace(lines[i][1])
                /\ ~IsWhitespace(lines[i][Len(lines[i])])

\* two paragraphs with a run of spaces, wrapped into a line of two words
\* and a line of one
C24_Witness ==
    /\ pc = "wrapped"
    /\ text = <<"a", " ", " ", "a", "\n", "a">>
    /\ width = 5
    /\ lines = << <<"a", " ", "a">>, <<"a">> >>

IsBorderLine(l) ==
    /\ l # <<>>
    /\ l[1] = "+" /\ l[Len(l)] = "+"
    /\ \A i \in 1..Len(l) : l[i] \in {"+", "-"}

\* C25: what a bordered table prints starts and ends with a border line,
\* with headers and without.
C25_BorderedTableEnclosed ==
    (TablePrinted /\ cfg.bordered /\ ~panicked) =>
        /\ out # <<>>
        /\ IsBorderLine(out[1])
        /\ IsBorderLine(out[Len(out)])

\* a bordered table of two rows and no headers, printed
C25_Witness ==
    /\ TablePrinted
    /\ cfg.bordered /\ ~panicked
    /\ cfg.headers = None
    /\ cfg.widths = None
    /\ cfg.rows = << <<Cell_a>>, <<Cell_a>> >>
    /\ Len(out) = 3

\* with headers the first and the last line are border lines
HeadedTableEnclosed ==
    (TablePrinted /\ cfg.bordered /\ ~panicked /\ cfg.headers # None) =>
        IsBorderLine(out[1]) /\ IsBorderLine(out[Len(out)])

\* C28: with derived widths and rows of exactly col_count cells, print
\* does not fail and all the lines it writes, rows and borders, are
\* equally wide on the terminal, also with cells of multi-byte or
\* double-width characters.
C28_DerivedLinesEquallyWide ==
    (TablePrinted /\ RegularDerived(cfg)) =>
        /\ ~panicked
        /\ \A i, j \in 1..Len(out) : display_width(out[i]) = display_width(out[j])

\* a bordered table with derived widths, a header and a row holding a
\* double-width character: 5 lines of 11 columns
C28_Witness ==
    /\ TablePrinted
    /\ cfg.bordered /\ RegularDerived(cfg)
    /\ cfg.headers = Some(<<Cell_a, Cell_wide>>)
    /\ cfg.rows = << <<Cell_a, Cell_wide>> >>
    /\ Len(out) = 5
    /\ \A i \in 1..5 : display_width(out[i]) = 11

(***************************************************************************)
(* More claims about List.                                                 *)
(***************************************************************************)
\* C26: every item of a printed List has at least one line, and its
\* first line starts with its prefix, with a width and without: as many
\* prefixed lines as items, empty items included.
C26_EveryItemHasPrefixedLine ==
    ListPrinted =>
        /\ Len(out) >= Len(cfg.items)
        /\ \A i \in 1..Len(cfg.items) :
            /\ Len(item_lines(cfg, i)) >= 1
            /\ IsPrefix(list_prefix(cfg, i), ItemLine(i, 1))

\* a numbered list of an empty item and the item "ab", printed at width 6
C26_Witness ==
    /\ ListPrinted
    /\ cfg.bullet = None
    /\ cfg.width = Some(6)
    /\ cfg.items = << <<>>, Item_ab >>
    /\ out = << <<"2", ".", " ", "a", "b">> >>

\* without a width every item has its prefixed line
UnwrappedItemsHavePrefixedLine ==
    (ListPrinted /\ cfg.width = None) =>
        /\ Len(out) = Len(cfg.items)
        /\ \A i \in 1..Len(cfg.items) : IsPrefix(list_prefix(cfg, i), out[i])

(***************************************************************************)
(* Claims about colour names.                                              *)
(***************************************************************************)
\* C27: a Note printed with a colour name is painted in the colour
\* parse_colour gives that name: "black" and names differing in letter
\* case or surrounding whitespace fare the same in both.
C27_ColourLookupsAgree ==
    (NotePrinted /\ cfg.color # None) =>
        painted.fg = parse_colour(cfg.color[1])

\* a Note printed with the colour "black"
C27_Witness ==
    /\ NotePrinted
    /\ cfg.color = Some(Str_black)
    /\ painted.fg = "none"

\* the two lookups differ on "black" and on names with spaces around
\* them, and on no other name
LookupsDifferOnlyThere ==
    (NotePrinted /\ cfg.color # None
        /\ cfg.color[1] # Str_black /\ trim(cfg.color[1]) = cfg.color[1]) =>
            painted.fg = parse_colour(cfg.color[1])

====
